---- MODULE Spec2Model ----
(***************************************************************************)
(* daft-launcher: resolution of a .daft.toml file into a Ray cluster       *)
(* manifest, resolution of a cluster's head node from the EC2 inventory,   *)
(* and the job-submission flow through an ssh tunnel.                      *)
(*                                                                         *)
(* The repository holds several generations of the same logic side by     *)
(* side; each is modelled under its own name:                              *)
(*   data_definitions.py / merge.py   build_ray_config_from_path           *)
(*   configs.py                       get_merged_config                    *)
(*   src/configs.py                   merge_config_with_default            *)
(*   helpers.py                       _get_ip                              *)
(*   __init__.py                      get_ip / find_ip                     *)
(*   commands.py / __init__.py        submit                               *)
(*   helpers.py                       _run_aws_command, get_state_map      *)
(*   commands.py                      list                                 *)
(*   helpers.py                       _ssh_command, ssh                    *)
(*   helpers.py                       print_logs / wait_on_job             *)
(***************************************************************************)
EXTENDS Integers, Sequences, FiniteSets, TLC

----------------------------------------------------------------------------
(* Bounds of the model.                                                    *)

\* largest number_of_workers a configuration file gives
MaxWorkers == 2
\* longest pre_setup_commands / setup_commands list of a configuration file
MaxCmds == 1
\* largest number of instance records in one inventory query result
MaxInstances == 3
\* the same, for the inventory a job submission resolves its head node from
MaxSubmitInstances == 1

----------------------------------------------------------------------------
(* Optional values: a key of a dict that may be missing, or None.          *)

None == <<>>
Some(v) == <<v>>
IsSome(o) == o # <<>>
Get(o) == o[1]

RECURSIVE SeqsUpTo(_, _)
SeqsUpTo(S, n) ==
    IF n = 0 THEN {<<>>}
    ELSE LET shorter == SeqsUpTo(S, n - 1)
         IN  shorter \cup {Append(s, e) : s \in {t \in shorter : Len(t) = n - 1}, e \in S}

Opt(S) == {None} \cup {Some(v) : v \in S}

----------------------------------------------------------------------------
(* The configuration file, as the dict tomllib.load returns.               *)

\* a shell command: the text and the values formatted into it
Cmd(text, args) == [cmd |-> text, args |-> args]

UserCommands == {Cmd("A", <<>>), Cmd("C", <<>>)}
Versions == {"0.1.0", "0.2.0"}
Names == {"", "x"}
Providers == {"aws", "gcp"}

SetupDicts ==
    [name : Opt(Names),
     provider : Opt(Providers),
     number_of_workers : Opt(0 .. MaxWorkers),
     dependencies : Opt(SeqsUpTo({"d1"}, 1))]

RunDicts ==
    [pre_setup_commands : Opt(SeqsUpTo(UserCommands, MaxCmds)),
     setup_commands : Opt(SeqsUpTo(UserCommands, MaxCmds))]

\* the provider's keys of the file, read where the resolving generation
\* reads them: at the top level of the dict (data_definitions.py, merge.py),
\* under [setup] (configs.py, src/configs.py, whose key for the instance
\* profile is `iam_instance_profile`)
Regions == {"eu-west-1"}
SshUsers == {"ubuntu"}
InstanceTypes == {"t3.large"}
ImageIds == {"ami-user"}
Arns == {"arn:aws:iam::1:instance-profile/user"}

ProviderKeys ==
    [region : Opt(Regions),
     ssh_user : Opt(SshUsers),
     instance_type : Opt(InstanceTypes),
     image_id : Opt(ImageIds),
     iam_instance_profile_arn : Opt(Arns)]

NoProviderKeys ==
    [region |-> None, ssh_user |-> None, instance_type |-> None,
     image_id |-> None, iam_instance_profile_arn |-> None]

\* files that differ in the sections, with no provider key
SectionConfigs ==
    [daft_launcher_version : Opt(Versions),
     setup : Opt(SetupDicts),
     run : Opt(RunDicts),
     aws : {NoProviderKeys}]

\* files that differ in the provider keys, the sections being valid
OverrideConfigs ==
    [daft_launcher_version : {Some("0.2.0")},
     setup : {Some([name |-> Some("x"), provider |-> Some("aws"),
                    number_of_workers |-> None, dependencies |-> None])},
     run : {None, Some([pre_setup_commands |-> None, setup_commands |-> None])},
     aws : ProviderKeys]

RawConfigs == SectionConfigs \cup OverrideConfigs

\* the running tool's version (helpers.daft_launcher_version)
daft_launcher_version == "0.2.0"

\* Setup.number_of_workers: int = Field(default=2)
DefaultNumberOfWorkers == 2

\* AwsConfiguration: the defaults of the provider's fields
DefaultRegion == "us-west-2"
DefaultSshUser == "ec2-user"
DefaultInstanceType == "m7g.medium"
DefaultImageId == "ami-01c3c55948a949a52"

\* a node_config that carries no instance profile of the user's
NoIamInstanceProfile == "(no IamInstanceProfile)"

----------------------------------------------------------------------------
(* Results of a resolution: an error tag ("" when none), the manifest and  *)
(* the steps of the handler that ran, in order.                            *)

Failed(tag, steps) == [error |-> tag, manifest |-> None, steps |-> steps]
Resolved(m, steps) == [error |-> "", manifest |-> Some(m), steps |-> steps]

----------------------------------------------------------------------------
(* data_definitions.py (and merge.py, whose copy of these functions is     *)
(* the same text).                                                         *)

\* the pinned interpreter and ray versions are left at their defaults
PythonVersion == "py"
RayVersion == "ray"

_generate_setup_commands(config) ==
    << Cmd("curl -LsSf https://astral.sh/uv/install.sh | sh", <<>>),
       Cmd("uv python install", <<PythonVersion>>),
       Cmd("uv python pin", <<PythonVersion>>),
       Cmd("uv venv", <<>>),
       Cmd("echo alias pip='uv pip' >> $HOME/.bashrc", <<>>),
       Cmd("echo source $HOME/.venv/bin/activate >> $HOME/.bashrc", <<>>),
       Cmd("source $HOME/.bashrc", <<>>),
       Cmd("uv pip install ray[default] getdaft deltalake", <<RayVersion>>) >>

\* pydantic: the required fields are there (the inputs carry no wrong-typed value)
PydanticValid(custom_config) ==
    /\ IsSome(custom_config.daft_launcher_version)
    /\ IsSome(Get(custom_config.setup).name)

\* AwsConfiguration(**custom_config): the fields with their defaults filled in
AwsConfiguration(custom_config) ==
    LET s == Get(custom_config.setup)
        r == custom_config.run
        a == custom_config.aws
    IN  [daft_launcher_version |-> Get(custom_config.daft_launcher_version),
         region |-> IF IsSome(a.region) THEN Get(a.region) ELSE DefaultRegion,
         ssh_user |-> IF IsSome(a.ssh_user) THEN Get(a.ssh_user) ELSE DefaultSshUser,
         instance_type |->
             IF IsSome(a.instance_type) THEN Get(a.instance_type) ELSE DefaultInstanceType,
         image_id |-> IF IsSome(a.image_id) THEN Get(a.image_id) ELSE DefaultImageId,
         iam_instance_profile_arn |-> a.iam_instance_profile_arn,
         setup |-> [name |-> Get(s.name),
                    provider |-> Get(s.provider),
                    number_of_workers |->
                        IF IsSome(s.number_of_workers)
                        THEN Get(s.number_of_workers)
                        ELSE DefaultNumberOfWorkers],
         run |-> [pre_setup_commands |->
                      IF IsSome(r) /\ IsSome(Get(r).pre_setup_commands)
                      THEN Get(Get(r).pre_setup_commands) ELSE <<>>,
                  setup_commands |->
                      IF IsSome(r) /\ IsSome(Get(r).setup_commands)
                      THEN Get(Get(r).setup_commands) ELSE <<>>]]

\* returns [error, config]
_construct_config_from_raw_dict(custom_config) ==
    IF ~IsSome(custom_config.setup)
    THEN [error |-> "NoSetupSection", config |-> None]
    ELSE IF ~IsSome(Get(custom_config.setup).provider)
    THEN [error |-> "NoProviderValue", config |-> None]
    ELSE IF Get(Get(custom_config.setup).provider) = "aws"
    THEN IF PydanticValid(custom_config)
         THEN [error |-> "", config |-> Some(AwsConfiguration(custom_config))]
         ELSE [error |-> "ValidationError", config |-> None]
    ELSE [error |-> "ProviderNotFound", config |-> None]

_build_ray_config_swapped(custom_config) ==
    [cluster_name |-> custom_config.setup.name,
     provider_type |-> "aws",
     region |-> custom_config.region,
     ssh_user |-> custom_config.ssh_user,
     head_InstanceType |-> custom_config.instance_type,
     head_ImageId |-> custom_config.image_id,
     head_IamInstanceProfile_Arn |-> NoIamInstanceProfile,
     worker_InstanceType |-> custom_config.instance_type,
     worker_ImageId |-> custom_config.image_id,
     worker_IamInstanceProfile_Arn |-> NoIamInstanceProfile,
     max_workers |-> custom_config.setup.number_of_workers,
     worker_min_workers |-> custom_config.setup.number_of_workers,
     worker_max_workers |-> custom_config.setup.number_of_workers,
     setup_commands |-> custom_config.run.setup_commands
                        \o _generate_setup_commands(custom_config)
                        \o custom_config.run.pre_setup_commands]

\* the worker template keeps the provider's own instance type
_build_ray_config_worker_template_default(custom_config) ==
    [cluster_name |-> custom_config.setup.name,
     provider_type |-> "aws",
     region |-> custom_config.region,
     ssh_user |-> custom_config.ssh_user,
     head_InstanceType |-> custom_config.instance_type,
     head_ImageId |-> custom_config.image_id,
     head_IamInstanceProfile_Arn |-> NoIamInstanceProfile,
     worker_InstanceType |-> DefaultInstanceType,
     worker_ImageId |-> custom_config.image_id,
     worker_IamInstanceProfile_Arn |-> NoIamInstanceProfile,
     max_workers |-> custom_config.setup.number_of_workers,
     worker_min_workers |-> custom_config.setup.number_of_workers,
     worker_max_workers |-> custom_config.setup.number_of_workers,
     setup_commands |-> custom_config.run.pre_setup_commands
                        \o _generate_setup_commands(custom_config)
                        \o custom_config.run.setup_commands]

_build_ray_config(custom_config) ==
    [cluster_name |-> custom_config.setup.name,
     provider_type |-> "aws",
     region |-> custom_config.region,
     ssh_user |-> custom_config.ssh_user,
     head_InstanceType |-> custom_config.instance_type,
     head_ImageId |-> custom_config.image_id,
     head_IamInstanceProfile_Arn |-> NoIamInstanceProfile,
     worker_InstanceType |-> custom_config.instance_type,
     worker_ImageId |-> custom_config.image_id,
     worker_IamInstanceProfile_Arn |-> NoIamInstanceProfile,
     max_workers |-> custom_config.setup.number_of_workers,
     worker_min_workers |-> custom_config.setup.number_of_workers,
     worker_max_workers |-> custom_config.setup.number_of_workers,
     setup_commands |-> custom_config.run.pre_setup_commands
                        \o _generate_setup_commands(custom_config)
                        \o custom_config.run.setup_commands]

build_ray_config_from_path_build_first(custom_config) ==
    LET c == _construct_config_from_raw_dict(custom_config)
    IN  IF c.error # ""
        THEN Failed(c.error, <<"construct">>)
        ELSE Resolved(_build_ray_config(Get(c.config)), <<"construct", "build">>)

build_ray_config_from_path(custom_config) ==
    LET c == _construct_config_from_raw_dict(custom_config)
    IN  IF c.error # ""
        THEN Failed(c.error, <<"construct">>)
        ELSE IF Get(c.config).daft_launcher_version # daft_launcher_version
        THEN Failed("VersionMismatch", <<"construct", "version_check">>)
        ELSE Resolved(_build_ray_config(Get(c.config)),
                      <<"construct", "version_check", "build">>)

----------------------------------------------------------------------------
(* The provider defaults: ray_default_configs/aws.yaml, which every        *)
(* resolution of configs.py and src/configs.py loads afresh.               *)

DefaultInstallerCommands ==
    << Cmd("curl -LsSf https://astral.sh/uv/install.sh | sh", <<>>),
       Cmd("uv pip install ray[default] getdaft", <<>>) >>

DefaultRayConfig ==
    [cluster_name |-> "default",
     provider_type |-> "aws",
     region |-> DefaultRegion,
     ssh_user |-> DefaultSshUser,
     head_InstanceType |-> DefaultInstanceType,
     head_ImageId |-> DefaultImageId,
     head_IamInstanceProfile_Arn |-> NoIamInstanceProfile,
     worker_InstanceType |-> DefaultInstanceType,
     worker_ImageId |-> DefaultImageId,
     worker_IamInstanceProfile_Arn |-> NoIamInstanceProfile,
     max_workers |-> DefaultNumberOfWorkers,
     worker_min_workers |-> DefaultNumberOfWorkers,
     worker_max_workers |-> DefaultNumberOfWorkers,
     setup_commands |-> DefaultInstallerCommands]

\* the dict the provider defaults were last loaded into (the object merge
\* writes into and returns), None before the first load
VARIABLE loaded

----------------------------------------------------------------------------
(* configs.py                                                              *)

\* (key of [setup], manifest fields it is written to, required)
setup_mappings ==
    << [a |-> "name", kind |-> "str", b |-> {"cluster_name"}, required |-> FALSE],
       [a |-> "provider", kind |-> "str", b |-> {"provider_type"}, required |-> TRUE],
       [a |-> "region", kind |-> "str", b |-> {"region"}, required |-> FALSE],
       [a |-> "ssh_user", kind |-> "str", b |-> {"ssh_user"}, required |-> FALSE],
       [a |-> "number_of_workers", kind |-> "int",
        b |-> {"max_workers", "worker_min_workers", "worker_max_workers"},
        required |-> FALSE],
       [a |-> "instance_type", kind |-> "str",
        b |-> {"head_InstanceType", "worker_InstanceType"}, required |-> FALSE],
       [a |-> "image_id", kind |-> "str",
        b |-> {"head_ImageId", "worker_ImageId"}, required |-> FALSE],
       [a |-> "iam_instance_profile_arn", kind |-> "str",
        b |-> {"head_IamInstanceProfile_Arn", "worker_IamInstanceProfile_Arn"},
        required |-> FALSE] >>

\* the aws defaults stand in for any provider
get_ray_config_any_provider(provider) ==
    [error |-> "", ray_config |-> Some(DefaultRayConfig)]

\* the dict of an earlier load is handed out again
get_ray_config_kept(provider) ==
    IF provider = "aws"
    THEN [error |-> "",
          ray_config |-> IF IsSome(loaded) THEN loaded ELSE Some(DefaultRayConfig)]
    ELSE [error |-> "ProviderNotFound", ray_config |-> None]

\* returns [error, ray_config]; yaml.safe_load makes a new dict of the file
get_ray_config(provider) ==
    IF provider = "aws"
    THEN [error |-> "", ray_config |-> Some(DefaultRayConfig)]
    ELSE [error |-> "ProviderNotFound", ray_config |-> None]

\* returns [error, provider]
get_custom_config(custom_config) ==
    IF ~IsSome(custom_config.setup)
    THEN [error |-> "NoSetupSection", provider |-> None]
    ELSE IF ~IsSome(Get(custom_config.setup).provider)
    THEN [error |-> "KeyError", provider |-> None]
    ELSE [error |-> "", provider |-> Get(custom_config.setup).provider]

\* custom_config["setup"]: the section, the provider's keys among its keys
SetupSection(custom_config) == Get(custom_config.setup) @@ custom_config.aws

\* Python's `not value` for value = setup.get(a)
NotValue(o, kind) ==
    \/ ~IsSome(o)
    \/ kind = "int" /\ Get(o) = 0
    \/ kind = "str" /\ Get(o) = ""

\* the loop over setup_mappings, from its i-th entry on
RECURSIVE ApplyMappings(_, _, _, _)
ApplyMappings(setup, ray_config, mappings, i) ==
    IF i > Len(mappings)
    THEN [error |-> "", ray_config |-> ray_config]
    ELSE LET m == mappings[i]
             value == setup[m.a]
         IN  IF NotValue(value, m.kind) /\ m.required
             THEN [error |-> "RequiredFieldMissing", ray_config |-> ray_config]
             ELSE IF NotValue(value, m.kind)
             THEN ApplyMappings(setup, ray_config, mappings, i + 1)
             ELSE ApplyMappings(
                      setup,
                      [f \in DOMAIN ray_config |->
                          IF f \in m.b THEN Get(value) ELSE ray_config[f]],
                      mappings, i + 1)

(* The list `setup_commands` of merge is a reference: `ray` is the list    *)
(* ray_config["setup_commands"] holds, `local` the list the local name is  *)
(* bound to, `aliased` whether they are the same list object.              *)
ListRef(l) == [ray |-> l, local |-> l, aliased |-> TRUE]
\* setup_commands.append / setup_commands.extend: in place
ListExtend(r, items) ==
    [r EXCEPT !.local = r.local \o items,
              !.ray = IF r.aliased THEN r.local \o items ELSE r.ray]
\* setup_commands = <new list>
ListRebind(r, l) == [r EXCEPT !.local = l, !.aliased = FALSE]
\* ray_config["setup_commands"] = setup_commands
ListStore(r) == [r EXCEPT !.ray = r.local, !.aliased = TRUE]

merge_setup_commands_not_stored(custom_config, ray_config) ==
    LET setup == Get(custom_config.setup)
        r0 == ListRef(ray_config.setup_commands)
        r1 == IF IsSome(setup.dependencies)
              THEN ListExtend(r0, <<Cmd("uv pip install", Get(setup.dependencies))>>)
              ELSE r0
        run == custom_config.run
        r2 == IF IsSome(run) /\ IsSome(Get(run).pre_setup_commands)
              THEN ListRebind(r1, Get(Get(run).pre_setup_commands) \o r1.local)
              ELSE r1
        r3 == IF IsSome(run) /\ IsSome(Get(run).setup_commands)
              THEN ListExtend(r2, Get(Get(run).setup_commands))
              ELSE r2
    IN  [ray_config EXCEPT !.setup_commands = r3.ray]

\* merge, lines 141-153: the bootstrap commands
merge_setup_commands(custom_config, ray_config) ==
    LET setup == Get(custom_config.setup)
        r0 == ListRef(ray_config.setup_commands)
        r1 == IF IsSome(setup.dependencies)
              THEN ListExtend(r0, <<Cmd("uv pip install", Get(setup.dependencies))>>)
              ELSE r0
        run == custom_config.run
        r2 == IF IsSome(run) /\ IsSome(Get(run).pre_setup_commands)
              THEN ListStore(ListRebind(r1, Get(Get(run).pre_setup_commands) \o r1.local))
              ELSE r1
        r3 == IF IsSome(run) /\ IsSome(Get(run).setup_commands)
              THEN ListExtend(r2, Get(Get(run).setup_commands))
              ELSE r2
    IN  [ray_config EXCEPT !.setup_commands = r3.ray]

\* returns [error, ray_config]
merge(custom_config, ray_config, mappings) ==
    IF ~IsSome(custom_config.setup)
    THEN [error |-> "NoSetupSection", ray_config |-> ray_config]
    ELSE LET m == ApplyMappings(SetupSection(custom_config), ray_config, mappings, 1)
         IN  IF m.error # ""
             THEN m
             ELSE [error |-> "",
                   ray_config |-> merge_setup_commands(custom_config, m.ray_config)]

get_merged_config(custom_config) ==
    LET c == get_custom_config(custom_config)
    IN  IF c.error # ""
        THEN Failed(c.error, <<"get_custom_config">>)
        ELSE LET d == get_ray_config(Get(c.provider))
             IN  IF d.error # ""
                 THEN Failed(d.error, <<"get_custom_config", "get_ray_config">>)
                 ELSE LET m == merge(custom_config, Get(d.ray_config), setup_mappings)
                          steps == <<"get_custom_config", "get_ray_config",
                                     "yaml.safe_load", "merge">>
                      IN  IF m.error # ""
                          THEN Failed(m.error, steps)
                          ELSE Resolved(m.ray_config, steps)

----------------------------------------------------------------------------
(* src/configs.py: the first generation. Its key for the worker count is   *)
(* `workers`; the field number_of_workers of the input stands for it.      *)

\* returns [error, ray_config]
get_default(provider) ==
    IF provider = "aws"
    THEN [error |-> "", ray_config |-> Some(DefaultRayConfig)]
    ELSE [error |-> "ProviderNotFound", ray_config |-> None]

\* merge(custom, default) of src/configs.py; returns [error, ray_config]
\* (the defaults are taken to hold the IamInstanceProfile mapping of the
\* worker template that line 74 indexes)
src_merge(custom, default) ==
    LET setup == SetupSection(custom)
        d1 == IF IsSome(setup.name)
              THEN [default EXCEPT !.cluster_name = Get(setup.name)]
              ELSE default
        d1a == IF IsSome(setup.region)
               THEN [d1 EXCEPT !.region = Get(setup.region)]
               ELSE d1
        d1b == IF IsSome(setup.ssh_user)
               THEN [d1a EXCEPT !.ssh_user = Get(setup.ssh_user)]
               ELSE d1a
        d1c == IF IsSome(setup.number_of_workers)
               THEN [d1b EXCEPT !.max_workers = Get(setup.number_of_workers),
                                !.worker_min_workers = Get(setup.number_of_workers),
                                !.worker_max_workers = Get(setup.number_of_workers)]
               ELSE d1b
        d1d == IF IsSome(setup.instance_type)
               THEN [d1c EXCEPT !.head_InstanceType = Get(setup.instance_type),
                                !.worker_InstanceType = Get(setup.instance_type)]
               ELSE d1c
        d1e == IF IsSome(setup.image_id)
               THEN [d1d EXCEPT !.head_ImageId = Get(setup.image_id),
                                !.worker_ImageId = Get(setup.image_id)]
               ELSE d1d
        d2 == IF IsSome(setup.iam_instance_profile_arn)
              THEN [d1e EXCEPT !.worker_IamInstanceProfile_Arn =
                                   Get(setup.iam_instance_profile_arn)]
              ELSE d1e
    IN  IF ~IsSome(custom.run)
        THEN [error |-> "KeyError", ray_config |-> d2]
        ELSE [error |-> "",
              ray_config |->
                  IF IsSome(Get(custom.run).setup_commands)
                  THEN [d2 EXCEPT !.setup_commands =
                                      d2.setup_commands \o Get(Get(custom.run).setup_commands)]
                  ELSE d2]

merge_config_with_default(custom_config) ==
    IF ~IsSome(custom_config.setup)
    THEN Failed("KeyError", <<"load">>)
    ELSE IF ~IsSome(Get(custom_config.setup).provider)
    THEN Failed("KeyError", <<"load">>)
    ELSE LET d == get_default(Get(Get(custom_config.setup).provider))
         IN  IF d.error # ""
             THEN Failed(d.error, <<"load", "get_default">>)
             ELSE LET m == src_merge(custom_config, Get(d.ray_config))
                      steps == <<"load", "get_default", "yaml.safe_load", "merge">>
                  IN  IF m.error # ""
                      THEN Failed(m.error, steps)
                      ELSE Resolved(m.ray_config, steps)

----------------------------------------------------------------------------
(* The EC2 inventory: the records one describe-instances query returns,    *)
(* the reservations flattened in the order of the response.                *)

InstanceStates == {"running", "terminated"}
NodeTypes == {"head", "worker"}
ClusterNames == {"x", "y"}
Ips == {"1.2.3.4", "5.6.7.8"}

Tag(k, v) == [Key |-> k, Value |-> v]

InstanceInformation(state, cluster, node_type, ip) ==
    [state |-> state,
     ip |-> ip,
     tags |-> <<Tag("ray-cluster-name", cluster), Tag("ray-node-type", node_type)>>]

InstanceRecords ==
    {InstanceInformation(st, c, t, ip) :
        st \in InstanceStates, c \in ClusterNames, t \in NodeTypes, ip \in Opt(Ips)}

\* the first tag of that key, None when there is none
RECURSIVE TagFrom(_, _, _)
TagFrom(tags, tag_name, i) ==
    IF i > Len(tags) THEN None
    ELSE IF tags[i].Key = tag_name THEN Some(tags[i].Value)
    ELSE TagFrom(tags, tag_name, i + 1)

get_tag(instance_info, tag_name) == TagFrom(instance_info.tags, tag_name, 1)

\* results of a head resolution: an error tag ("" when none) and the value
\* returned, which is the record's PublicIpAddress: None when it has none
Raised(tag) == [error |-> tag, ip |-> None]
Returned(ip) == [error |-> "", ip |-> ip]

----------------------------------------------------------------------------
(* helpers.py: _get_ip                                                     *)

RECURSIVE GetIpFrom(_, _, _)
GetIpFrom(instance_infos, name, i) ==
    IF i > Len(instance_infos)
    THEN Raised("CouldNotFindPublicIp")
    ELSE LET instance_info == instance_infos[i]
             a == instance_info.state = "running"
             b == get_tag(instance_info, "ray-node-type") = Some("head")
             c == get_tag(instance_info, "ray-cluster-name") = Some(name)
         IN  IF a /\ b /\ c
             THEN Returned(instance_info.ip)
             ELSE GetIpFrom(instance_infos, name, i + 1)

_get_ip_no_match_returns_none(instance_infos, name) ==
    LET r == GetIpFrom(instance_infos, name, 1)
    IN  IF r.error # "" THEN Returned(None) ELSE r

_get_ip(instance_infos, name) == GetIpFrom(instance_infos, name, 1)

----------------------------------------------------------------------------
(* __init__.py: get_ip / find_ip                                           *)

\* the loop over instance["Tags"]: the last tag of each key decides
RECURSIVE ScanTags(_, _, _)
ScanTags(tags, i, acc) ==
    IF i > Len(tags) THEN acc
    ELSE IF tags[i].Key = "ray-cluster-name"
    THEN ScanTags(tags, i + 1, [acc EXCEPT !.cluster_name = Some(tags[i].Value)])
    ELSE IF tags[i].Key = "ray-node-type"
    THEN ScanTags(tags, i + 1, [acc EXCEPT !.is_head = (tags[i].Value = "head")])
    ELSE ScanTags(tags, i + 1, acc)

\* returns [error, ip, state]
RECURSIVE FindIpFrom(_, _, _)
FindIpFrom(instances, name, i) ==
    IF i > Len(instances)
    THEN [error |-> "IpNotFound", ip |-> None, state |-> ""]
    ELSE LET instance == instances[i]
             t == ScanTags(instance.tags, 1, [is_head |-> FALSE, cluster_name |-> None])
         IN  IF t.is_head /\ t.cluster_name = Some(name)
             THEN [error |-> "", ip |-> instance.ip, state |-> instance.state]
             ELSE FindIpFrom(instances, name, i + 1)

find_ip(instance_groups, name) == FindIpFrom(instance_groups, name, 1)

get_ip(instance_groups, name) ==
    LET f == find_ip(instance_groups, name)
    IN  IF f.error # "" THEN Raised(f.error)
        ELSE IF f.state # "running" THEN Raised("NotRunning")
        ELSE IF ~IsSome(f.ip) THEN Raised("NoPublicIp")
        ELSE Returned(f.ip)

----------------------------------------------------------------------------
(* The inventory query: the `aws ec2 describe-instances` child process     *)
(* (subprocess.run with capture_output) and what each caller makes of its  *)
(* exit status, its stdout and its stderr.                                 *)

\* the longest response body
MaxListed == 3

\* the records a response body can hold: a running instance with its public
\* address, a terminated one without
ListedRecords ==
    {InstanceInformation(st, c, t, IF st = "running" THEN Some("1.2.3.4") ELSE None) :
        st \in InstanceStates, c \in ClusterNames, t \in NodeTypes}

\* result.stdout: its text and, when the text is JSON, the value it stands
\* for (the reservations flattened in the order of the response)
EmptyStdout == [text |-> "", body |-> <<>>]
GarbageStdout == [text |-> "<html>", body |-> <<>>]
JsonStdout(body) == [text |-> "[[...]]", body |-> body]

Stdouts ==
    {EmptyStdout, GarbageStdout}
        \cup {JsonStdout(b) : b \in SeqsUpTo(ListedRecords, MaxListed)}

\* result.stderr
TokenExpiredStderr == "Error when retrieving token from sso: Token has expired and refresh failed"
Stderrs == {"", TokenExpiredStderr, "Could not connect to the endpoint URL"}

\* "Token has expired" in result.stderr
TokenHasExpiredIn(stderr) == stderr = TokenExpiredStderr

\* result.returncode
Returncodes == {0, 254}

Responses == [returncode : Returncodes, stdout : Stdouts, stderr : Stderrs]

\* json.loads(result.stdout)
json_loads(stdout) ==
    IF stdout.text = "[[...]]"
    THEN [error |-> "", value |-> stdout.body]
    ELSE [error |-> "JSONDecodeError", value |-> <<>>]

\* results of an operation on the inventory: the exception that left it
\* ("" when none), and what it returned or printed: an address, or the
\* groups of a state map or of a listing
QueryRaised(tag) == [error |-> tag, ip |-> None, groups |-> <<>>]
QueryReturned(ip, groups) == [error |-> "", ip |-> ip, groups |-> groups]

\* helpers._run_aws_command, given the CompletedProcess: [error, value]
_run_aws_command(result) ==
    IF result.returncode # 0 /\ TokenHasExpiredIn(result.stderr)
    THEN [error |-> "TokenExpired", value |-> <<>>]
    ELSE IF result.stdout.text = ""
    THEN [error |-> "EmptyResponse", value |-> <<>>]
    ELSE LET parsed == json_loads(result.stdout)
         IN  IF parsed.error # ""
             THEN [error |-> "UnparsableResponse", value |-> <<>>]
             ELSE parsed

\* the "--region" argument of the describe-instances command line
QueryRegion == "us-west-2"

\* helpers._parse_describe_instances_query: the groups flattened, each dict
\* made an InstanceInformation
_parse_describe_instances_query(result) == _run_aws_command(result)

\* the position of a key in an insertion-ordered dict, 0 when it has none
KeyIndex(state_map, key) ==
    IF \E k \in 1 .. Len(state_map) : state_map[k].state = key
    THEN CHOOSE k \in 1 .. Len(state_map) : state_map[k].state = key
    ELSE 0

RECURSIVE StateMapNewKeyFirst(_, _, _)
StateMapNewKeyFirst(items, i, state_map) ==
    IF i > Len(items) THEN state_map
    ELSE LET k == KeyIndex(state_map, items[i].state)
         IN  IF k = 0
             THEN StateMapNewKeyFirst(items, i + 1,
                      <<[state |-> items[i].state, members |-> <<items[i]>>]>>
                          \o state_map)
             ELSE StateMapNewKeyFirst(items, i + 1,
                      [state_map EXCEPT ![k].members = Append(@, items[i])])

\* the record that opens a group is left out of it
RECURSIVE StateMapWithoutOpener(_, _, _)
StateMapWithoutOpener(items, i, state_map) ==
    IF i > Len(items) THEN state_map
    ELSE LET k == KeyIndex(state_map, items[i].state)
         IN  IF k = 0
             THEN StateMapWithoutOpener(items, i + 1,
                      Append(state_map, [state |-> items[i].state, members |-> <<>>]))
             ELSE StateMapWithoutOpener(items, i + 1,
                      [state_map EXCEPT ![k].members = Append(@, items[i])])

\* for item in items: if state not in state_map: state_map[state] = [];
\* state_map[state].append(item). A dict keeps its keys in insertion order.
RECURSIVE StateMapFrom(_, _, _)
StateMapFrom(items, i, state_map) ==
    IF i > Len(items) THEN state_map
    ELSE LET k == KeyIndex(state_map, items[i].state)
         IN  IF k = 0
             THEN StateMapFrom(items, i + 1,
                      Append(state_map,
                             [state |-> items[i].state, members |-> <<items[i]>>]))
             ELSE StateMapFrom(items, i + 1,
                      [state_map EXCEPT ![k].members = Append(@, items[i])])

get_state_map_new_key_first(result) ==
    LET q == _parse_describe_instances_query(result)
    IN  IF q.error # "" THEN QueryRaised(q.error)
        ELSE QueryReturned(None, StateMapNewKeyFirst(q.value, 1, <<>>))

\* helpers.get_state_map
get_state_map(result) ==
    LET q == _parse_describe_instances_query(result)
    IN  IF q.error # "" THEN QueryRaised(q.error)
        ELSE QueryReturned(None, StateMapFrom(q.value, 1, <<>>))

\* helpers._get_ip, the query included
_get_ip_query(result, name) ==
    LET q == _parse_describe_instances_query(result)
    IN  IF q.error # "" THEN QueryRaised(q.error)
        ELSE LET r == _get_ip(q.value, name)
             IN  IF r.error # "" THEN QueryRaised(r.error)
                 ELSE QueryReturned(r.ip, <<>>)

\* __init__.get_ip, the query included: json.loads on the stdout as it is
get_ip_query(result, name) ==
    LET parsed == json_loads(result.stdout)
    IN  IF parsed.error # "" THEN QueryRaised(parsed.error)
        ELSE LET r == get_ip(parsed.value, name)
             IN  IF r.error # "" THEN QueryRaised(r.error)
                 ELSE QueryReturned(r.ip, <<>>)

\* str.capitalize() on a lifecycle state
capitalize(state) ==
    CASE state = "running" -> "Running"
      [] state = "terminated" -> "Terminated"
      [] OTHER -> state

\* commands.list, lines 52-58: the loop over instance["Tags"]
RECURSIVE ScanListTags(_, _, _)
ScanListTags(tags, i, acc) ==
    IF i > Len(tags) THEN acc
    ELSE LET a == IF tags[i].Key = "ray-node-type"
                  THEN [acc EXCEPT !.node_type = Some(tags[i].Value)]
                  ELSE acc
             b == IF tags[i].Key = "ray-cluster-name"
                  THEN [a EXCEPT !.name = Some(tags[i].Value)]
                  ELSE a
         IN  ScanListTags(tags, i + 1, b)

\* commands.list, lines 46-64: the tuple (name, node_type, ip) of an instance;
\* the key of the group is the instance's State
ListTuple(instance) ==
    LET t == ScanListTags(instance.tags, 1, [name |-> None, node_type |-> None])
    IN  [state |-> instance.state, name |-> t.name, node_type |-> t.node_type,
         ip |-> instance.ip]

RECURSIVE ListTuples(_, _)
ListTuples(instances, i) ==
    IF i > Len(instances) THEN <<>>
    ELSE <<ListTuple(instances[i])>> \o ListTuples(instances, i + 1)

\* commands.list, lines 65-71: one header per group, then one line per
\* instance, the address shown when it is truthy
PrintedGroup(group) ==
    [state |-> capitalize(group.state),
     members |-> [j \in 1 .. Len(group.members) |->
                    [name |-> group.members[j].name,
                     node_type |-> group.members[j].node_type,
                     ip |-> group.members[j].ip]]]

\* commands.list
list(result) ==
    IF result.returncode # 0 /\ TokenHasExpiredIn(result.stderr)
    THEN QueryRaised("TokenExpired")
    ELSE LET parsed == json_loads(result.stdout)
         IN  IF parsed.error # "" THEN QueryRaised(parsed.error)
             ELSE LET tuples == ListTuples(parsed.value, 1)
                      state_to_name_map == StateMapFrom(tuples, 1, <<>>)
                  IN  IF \E j \in 1 .. Len(tuples) :
                            ~IsSome(tuples[j].name) \/ ~IsSome(tuples[j].node_type)
                      THEN QueryRaised("AssertionError")
                      ELSE QueryReturned(None,
                              [k \in 1 .. Len(state_to_name_map) |->
                                  PrintedGroup(state_to_name_map[k])])

----------------------------------------------------------------------------
(* helpers.py: the ssh command line of the tunnel.                         *)

\* the longest list of additional port forwards
MaxPorts == 2

\* the ports a caller asks for besides the dashboard's
AdditionalPorts == {8000, 10001}

\* the port of the Ray dashboard, in the literal "8265:localhost:8265"
DashboardPort == 8265

\* the words of a command line: a plain word, the word
\* f"{pf}:localhost:{pf}", and the word f"{user}@{ip}" (ip may be None)
Word(text) == [text |-> text, port |-> 0, host |-> None]
Forwarding(pf) == [text |-> "{pf}:localhost:{pf}", port |-> pf, host |-> None]
UserAtIp(user, ip) == [text |-> "{user}@{ip}", port |-> 0, host |-> <<user, ip>>]

\* AwsConfiguration.ssh_user, at its default
ssh_user == "ec2-user"

\* [arg for args in map(lambda pf: ["-l", f"{pf}:localhost:{pf}"], ...) for arg in args]
RECURSIVE port_forwards_args(_, _)
port_forwards_args(additional_port_forwards, i) ==
    IF i > Len(additional_port_forwards) THEN <<>>
    ELSE <<Word("-l"), Forwarding(additional_port_forwards[i])>>
             \o port_forwards_args(additional_port_forwards, i + 1)

\* helpers._ssh_command: [error, command]
_ssh_command(instance_infos, name, pub_key, additional_port_forwards) ==
    LET identity_args == IF IsSome(pub_key)
                         THEN <<Word("-i"), Word(Get(pub_key))>>
                         ELSE <<>>
        ip == _get_ip(instance_infos, name)
    IN  IF ip.error # ""
        THEN [error |-> ip.error, command |-> <<>>]
        ELSE [error |-> "",
              command |-> <<Word("ssh"), Word("-N"), Word("-L"),
                            Forwarding(DashboardPort)>>
                          \o port_forwards_args(additional_port_forwards, 1)
                          \o identity_args
                          \o <<UserAtIp(ssh_user, ip.ip)>>]

----------------------------------------------------------------------------
(* The remote job and its log stream, as the job-submission client of Ray  *)
(* shows them.                                                             *)

\* the longest log stream
MaxLines == 3

\* what one iteration of the stream yields
LogLines == {"l1", "l2"}

----------------------------------------------------------------------------
(* State.                                                                  *)

VARIABLES
    \* manifest resolution: which entry point ran, on what file, with what result
    rpc,        \* "idle" | "done"
    impl,       \* the entry point that ran
    raw,        \* the configuration file read
    result,     \* [error, manifest, steps]
    history,    \* the resolutions this process has made: [impl, raw, result]
    \* the cloud
    inventory,  \* the instance records a describe-instances query returns
    \* head resolution
    hpc,        \* "idle" | "done"
    himpl,      \* the function that ran
    hname,      \* the cluster name asked for
    hresult,    \* [error, ip]
    \* job submission (submit)
    spc,            \* where the control is in submit
    identity_file,  \* the --identity-file given, None when not
    working_dir,    \* the --working-dir given
    process,        \* the tunnel process spawned, None before
    tunnel,         \* "none" | "running" | "exited" | "terminated"
    terminate_calls,\* calls of process.terminate()
    tries,          \* the local `tries`
    client,         \* whether the local `client` is set
    connlog,        \* the outcome of each JobSubmissionClient(...) so far
    jobs,           \* the submit_job calls made
    exc,            \* the exception propagating, "" when none
    outcome,        \* how submit ended: "" (running), "ok" or the error
    spawnlog,       \* the calls made to spawn the tunnel: "get_ip", "Popen"
    \* the ssh child process and the remote job
    established,    \* whether the ssh child has its session and forwards up
    job_status,     \* the status of the job submitted, None before
    \* an operation on the inventory (get_state_map, list, _get_ip, get_ip)
    qpc,        \* "idle" | "done"
    qimpl,      \* the operation that ran
    response,   \* the CompletedProcess of its describe-instances query
    queries,    \* the queries it issued
    qresult,    \* [error, ip, groups]
    configured_region,  \* the region of the configuration it was given, None when none
    queried_region,     \* the --region of the query it issued, None before
    \* opening a tunnel (helpers.ssh)
    tpc,        \* where the control is in ssh
    additional_port_forwards,   \* the ports asked for
    command,    \* the command line given to Popen
    returncode, \* process.returncode, None until the process is polled
    printed,    \* what ssh printed of the child's stdout
    tresult,    \* "" (running), "handle" when ssh returned process, or the error
    \* tailing the logs of a job (helpers.wait_on_job)
    lpc,        \* where the control is in wait_on_job / print_logs
    stream,     \* what the job has written to its log stream so far
    stream_open,\* whether the stream can still yield
    nread,      \* the items the iteration has taken from the stream
    lines,      \* the loop variable `lines`, None outside the loop body
    written     \* what print has written, in order

resolveVars == <<rpc, impl, raw, result, loaded, history>>
headVars == <<hpc, himpl, hname, hresult>>
submitVars == <<spc, identity_file, working_dir, process, tunnel, terminate_calls,
                tries, client, connlog, jobs, exc, outcome, spawnlog>>

queryVars == <<qpc, qimpl, response, queries, qresult, configured_region,
               queried_region>>
sshVars == <<tpc, additional_port_forwards, command, returncode, printed, tresult>>
streamVars == <<lpc, stream, stream_open, nread, lines, written>>
restVars == <<queryVars, sshVars, streamVars>>

vars == <<rpc, impl, raw, result, loaded, history, inventory, hpc, himpl, hname, hresult,
          spc, identity_file, working_dir, process, tunnel, terminate_calls,
          tries, client, connlog, jobs, exc, outcome, spawnlog, established, job_status,
          qpc, qimpl, response, queries, qresult, configured_region, queried_region,
          tpc, additional_port_forwards, command, returncode, printed, tresult,
          lpc, stream, stream_open, nread, lines, written>>

NoRaw ==
    [daft_launcher_version |-> None, setup |-> None, run |-> None,
     aws |-> NoProviderKeys]
NoResult == [error |-> "", manifest |-> None, steps |-> <<>>]

ResolveIdle ==
    /\ rpc = "idle"
    /\ impl = "none"
    /\ raw = NoRaw
    /\ result = NoResult
    /\ loaded = None
    /\ history = <<>>

HeadIdle ==
    /\ hpc = "idle"
    /\ himpl = "none"
    /\ hname = ""
    /\ hresult = Returned(None)

SubmitIdle ==
    /\ spc = "idle"
    /\ identity_file = None
    /\ working_dir = ""
    /\ process = None
    /\ tunnel = "none"
    /\ terminate_calls = 0
    /\ tries = 0
    /\ client = FALSE
    /\ connlog = <<>>
    /\ jobs = <<>>
    /\ exc = ""
    /\ outcome = ""
    /\ spawnlog = <<>>

RemoteIdle ==
    /\ established = FALSE
    /\ job_status = None

NoResponse == [returncode |-> 0, stdout |-> EmptyStdout, stderr |-> ""]

QueryIdle ==
    /\ qpc = "idle"
    /\ qimpl = "none"
    /\ response = NoResponse
    /\ queries = 0
    /\ qresult = QueryReturned(None, <<>>)
    /\ configured_region = None
    /\ queried_region = None

SshIdle ==
    /\ tpc = "idle"
    /\ additional_port_forwards = <<>>
    /\ command = <<>>
    /\ returncode = None
    /\ printed = <<>>
    /\ tresult = ""

StreamIdle ==
    /\ lpc = "idle"
    /\ stream = <<>>
    /\ stream_open = TRUE
    /\ nread = 0
    /\ lines = None
    /\ written = <<>>

OthersIdle == RemoteIdle /\ QueryIdle /\ SshIdle /\ StreamIdle

\* data_definitions.build_ray_config_from_path (cli.get_config_path)
BuildRayConfigFromPath ==
    /\ rpc = "idle"
    /\ \E c \in RawConfigs :
          /\ raw' = c
          /\ result' = build_ray_config_from_path(c)
    /\ impl' = "data_definitions"
    /\ rpc' = "done"

\* configs.get_merged_config (commands.up / commands.down)
GetMergedConfig ==
    /\ rpc = "idle"
    /\ \E c \in RawConfigs :
          /\ raw' = c
          /\ result' = get_merged_config(c)
    /\ impl' = "configs"
    /\ rpc' = "done"

\* src/configs.merge_config_with_default
MergeConfigWithDefault ==
    /\ rpc = "idle"
    /\ \E c \in RawConfigs :
          /\ raw' = c
          /\ result' = merge_config_with_default(c)
    /\ impl' = "src_configs"
    /\ rpc' = "done"

\* the invocation ends; the next one starts from nothing
ResolveExit ==
    /\ rpc = "done"
    /\ rpc' = "idle"
    /\ impl' = "none"
    /\ raw' = NoRaw
    /\ result' = NoResult

ResolveNext ==
    \/ BuildRayConfigFromPath /\ UNCHANGED <<loaded, history, inventory, headVars, submitVars, restVars, established, job_status>>
    \/ GetMergedConfig /\ UNCHANGED <<loaded, history, inventory, headVars, submitVars, restVars, established, job_status>>
    \/ MergeConfigWithDefault /\ UNCHANGED <<loaded, history, inventory, headVars, submitVars, restVars, established, job_status>>
    \/ ResolveExit /\ UNCHANGED <<loaded, history, inventory, headVars, submitVars, restVars, established, job_status>>

InitResolve == ResolveIdle /\ inventory = <<>> /\ HeadIdle /\ SubmitIdle /\ OthersIdle

SpecResolve == InitResolve /\ [][ResolveNext]_vars

----------------------------------------------------------------------------
(* Several resolutions in one process, one after the other. merge writes   *)
(* into the dict the defaults were loaded into and returns that dict.      *)

\* the resolutions one process makes
MaxRepeats == 3

RepeatConfigs ==
    [daft_launcher_version : {Some("0.2.0")},
     setup : {Some([name |-> Some("x"), provider |-> Some("aws"),
                    number_of_workers |-> None, dependencies |-> d]) :
                 d \in {None, Some(<<"d1">>)}},
     run : {Some([pre_setup_commands |-> None, setup_commands |-> c]) :
                 c \in {None, Some(<<Cmd("A", <<>>)>>)}},
     aws : {[NoProviderKeys EXCEPT !.region = r] : r \in Opt(Regions)}]

Resolution(i, c, r) == [impl |-> i, raw |-> c, result |-> r]

RepeatBuildRayConfigFromPath ==
    /\ Len(history) < MaxRepeats
    /\ \E c \in RepeatConfigs :
          history' = Append(history,
                            Resolution("data_definitions", c, build_ray_config_from_path(c)))
    /\ UNCHANGED <<rpc, impl, raw, result, loaded>>

RepeatGetMergedConfig ==
    /\ Len(history) < MaxRepeats
    /\ \E c \in RepeatConfigs :
          LET r == get_merged_config(c)
          IN  /\ history' = Append(history, Resolution("configs", c, r))
              /\ loaded' = IF IsSome(r.manifest) THEN r.manifest ELSE loaded
    /\ UNCHANGED <<rpc, impl, raw, result>>

RepeatMergeConfigWithDefault ==
    /\ Len(history) < MaxRepeats
    /\ \E c \in RepeatConfigs :
          LET r == merge_config_with_default(c)
          IN  /\ history' = Append(history, Resolution("src_configs", c, r))
              /\ loaded' = IF IsSome(r.manifest) THEN r.manifest ELSE loaded
    /\ UNCHANGED <<rpc, impl, raw, result>>

RepeatNext ==
    \/ RepeatBuildRayConfigFromPath /\ UNCHANGED <<inventory, headVars, submitVars, restVars, established, job_status>>
    \/ RepeatGetMergedConfig /\ UNCHANGED <<inventory, headVars, submitVars, restVars, established, job_status>>
    \/ RepeatMergeConfigWithDefault /\ UNCHANGED <<inventory, headVars, submitVars, restVars, established, job_status>>

InitRepeat == ResolveIdle /\ inventory = <<>> /\ HeadIdle /\ SubmitIdle /\ OthersIdle

SpecRepeat == InitRepeat /\ [][RepeatNext]_vars

----------------------------------------------------------------------------
(* Head resolution against the inventory of the moment.                    *)

\* an instance shows up in the query result (the cloud, not the tool)
InstanceAppears ==
    /\ hpc = "idle"
    /\ Len(inventory) < MaxInstances
    /\ \E r \in InstanceRecords : inventory' = Append(inventory, r)
    /\ UNCHANGED <<hpc, himpl, hname, hresult>>

\* helpers._get_ip(config_bundle), with custom_config.setup.name = "x"
HelpersGetIp ==
    /\ hpc = "idle"
    /\ hname' = "x"
    /\ hresult' = _get_ip(inventory, "x")
    /\ himpl' = "helpers"
    /\ hpc' = "done"
    /\ UNCHANGED inventory

\* __init__.get_ip(config), with final_config["cluster_name"] = "x"
InitGetIp ==
    /\ hpc = "idle"
    /\ hname' = "x"
    /\ hresult' = get_ip(inventory, "x")
    /\ himpl' = "init"
    /\ hpc' = "done"
    /\ UNCHANGED inventory

\* the caller has its answer
HeadReturn ==
    /\ hpc = "done"
    /\ hpc' = "idle"
    /\ himpl' = "none"
    /\ hname' = ""
    /\ hresult' = Returned(None)
    /\ UNCHANGED inventory

HeadNext ==
    \/ InstanceAppears /\ UNCHANGED <<resolveVars, submitVars, restVars, established, job_status>>
    \/ HelpersGetIp /\ UNCHANGED <<resolveVars, submitVars, restVars, established, job_status>>
    \/ InitGetIp /\ UNCHANGED <<resolveVars, submitVars, restVars, established, job_status>>
    \/ HeadReturn /\ UNCHANGED <<resolveVars, submitVars, restVars, established, job_status>>

InitHead == ResolveIdle /\ inventory = <<>> /\ HeadIdle /\ SubmitIdle /\ OthersIdle

SpecHead == InitHead /\ [][HeadNext]_vars

----------------------------------------------------------------------------
(* submit (commands.py; __init__.py holds the same text): the tunnel is    *)
(* spawned, then, inside try/finally, the connection loop, the submission  *)
(* of the job and, in the finally clause, process.terminate().             *)

max_tries == 3

\* the positions inside the try block
TryPositions == {"try", "loop", "connect", "sleep", "assert", "submit_job", "print"}

\* process = subprocess.Popen(ssh_command(get_ip(config), identity_file), ...):
\* get_ip raises, or Popen raises, or the tunnel process is running
SubmitSpawnTunnel ==
    /\ spc = "idle"
    /\ outcome = ""
    /\ \E i \in Opt({"key.pem"}), w \in {"", "."} :
          /\ identity_file' = i
          /\ working_dir' = w
          /\ LET head == get_ip(inventory, "x")
             IN  \/ /\ head.error # ""
                    /\ outcome' = head.error
                    /\ spc' = "done"
                    /\ spawnlog' = Append(spawnlog, "get_ip")
                    /\ UNCHANGED <<process, tunnel>>
                 \/ /\ head.error = ""
                    /\ process' = Some([target |-> Get(head.ip), identity |-> i])
                    /\ tunnel' = "running"
                    /\ spc' = "try"
                    /\ spawnlog' = spawnlog \o <<"get_ip", "Popen">>
                    /\ UNCHANGED outcome
                 \/ /\ head.error = ""
                    /\ outcome' = "PopenError"
                    /\ spc' = "done"
                    /\ spawnlog' = spawnlog \o <<"get_ip", "Popen">>
                    /\ UNCHANGED <<process, tunnel>>
    /\ UNCHANGED <<terminate_calls, tries, client, connlog, jobs, exc>>

\* working_dir_path = ...; client = None; tries = 0
SubmitEnterTry ==
    /\ spc = "try"
    /\ client' = FALSE
    /\ tries' = 0
    /\ spc' = "loop"
    /\ UNCHANGED <<identity_file, working_dir, process, tunnel, terminate_calls,
                   connlog, jobs, exc, outcome>>

\* while tries <= max_tries:
SubmitLoopTest ==
    /\ spc = "loop"
    /\ spc' = IF tries <= max_tries THEN "connect" ELSE "assert"
    /\ UNCHANGED <<identity_file, working_dir, process, tunnel, terminate_calls,
                   tries, client, connlog, jobs, exc, outcome>>

SubmitConnectNoBreak ==
    /\ spc = "connect"
    /\ \E accepted \in BOOLEAN :
          /\ connlog' = Append(connlog, accepted)
          /\ IF accepted
             THEN /\ client' = TRUE
                  /\ spc' = "loop"
                  /\ UNCHANGED <<tries, exc>>
             ELSE /\ tries' = tries + 1
                  /\ IF tries + 1 >= max_tries
                     THEN exc' = "ConnectionError" /\ spc' = "finally"
                     ELSE exc' = exc /\ spc' = "sleep"
                  /\ UNCHANGED client
    /\ UNCHANGED <<identity_file, working_dir, process, tunnel, terminate_calls,
                   jobs, outcome>>

SubmitConnectOneMoreTry ==
    /\ spc = "connect"
    /\ \E accepted \in BOOLEAN :
          /\ connlog' = Append(connlog, accepted)
          /\ IF accepted
             THEN /\ client' = TRUE
                  /\ spc' = "assert"
                  /\ UNCHANGED <<tries, exc>>
             ELSE /\ tries' = tries + 1
                  /\ IF tries + 1 > max_tries
                     THEN exc' = "ConnectionError" /\ spc' = "finally"
                     ELSE exc' = exc /\ spc' = "sleep"
                  /\ UNCHANGED client
    /\ UNCHANGED <<identity_file, working_dir, process, tunnel, terminate_calls,
                   jobs, outcome>>

\* the except clause counts the attempt and never re-raises
SubmitConnectNeverRaises ==
    /\ spc = "connect"
    /\ \E accepted \in BOOLEAN :
          /\ connlog' = Append(connlog, accepted)
          /\ IF accepted
             THEN /\ client' = TRUE
                  /\ spc' = "assert"
                  /\ UNCHANGED <<tries, exc>>
             ELSE /\ tries' = tries + 1
                  /\ exc' = exc
                  /\ spc' = "sleep"
                  /\ UNCHANGED client
    /\ UNCHANGED <<identity_file, working_dir, process, tunnel, terminate_calls,
                   jobs, outcome>>

\* try: client = JobSubmissionClient(...); break
\* except Exception as e: tries += 1; if tries >= max_tries: raise e
SubmitConnect ==
    /\ spc = "connect"
    /\ \E accepted \in BOOLEAN :
          /\ connlog' = Append(connlog, accepted)
          /\ IF accepted
             THEN /\ client' = TRUE
                  /\ spc' = "assert"
                  /\ UNCHANGED <<tries, exc>>
             ELSE /\ tries' = tries + 1
                  /\ IF tries + 1 >= max_tries
                     THEN exc' = "ConnectionError" /\ spc' = "finally"
                     ELSE exc' = exc /\ spc' = "sleep"
                  /\ UNCHANGED client
    /\ UNCHANGED <<identity_file, working_dir, process, tunnel, terminate_calls,
                   jobs, outcome>>

\* time.sleep(1)
SubmitSleep ==
    /\ spc = "sleep"
    /\ spc' = "loop"
    /\ UNCHANGED <<identity_file, working_dir, process, tunnel, terminate_calls,
                   tries, client, connlog, jobs, exc, outcome>>

\* assert client
SubmitAssertClient ==
    /\ spc = "assert"
    /\ IF client
       THEN spc' = "submit_job" /\ exc' = exc
       ELSE spc' = "finally" /\ exc' = "AssertionError"
    /\ UNCHANGED <<identity_file, working_dir, process, tunnel, terminate_calls,
                   tries, client, connlog, jobs, outcome>>

\* a submit_job that raised is called again
SubmitJobAgainOnError ==
    /\ spc = "submit_job"
    /\ jobs' = Append(jobs, [entrypoint |-> "cmd",
                             runtime_env |-> IF working_dir # ""
                                             THEN Some(working_dir) ELSE None])
    /\ \E returned \in BOOLEAN :
          IF returned
          THEN spc' = "print" /\ exc' = exc /\ job_status' = Some("PENDING")
          ELSE spc' = "submit_job" /\ exc' = exc /\ job_status' = job_status
    /\ UNCHANGED <<identity_file, working_dir, process, tunnel, terminate_calls,
                   tries, client, connlog, outcome>>

\* id = client.submit_job(entrypoint=cmd, runtime_env=... if working_dir else None)
SubmitJob ==
    /\ spc = "submit_job"
    /\ jobs' = Append(jobs, [entrypoint |-> "cmd",
                             runtime_env |-> IF working_dir # ""
                                             THEN Some(working_dir) ELSE None])
    /\ \E returned \in BOOLEAN :
          IF returned
          THEN spc' = "print" /\ exc' = exc /\ job_status' = Some("PENDING")
          ELSE spc' = "finally" /\ exc' = "SubmitError" /\ job_status' = job_status
    /\ UNCHANGED <<identity_file, working_dir, process, tunnel, terminate_calls,
                   tries, client, connlog, outcome>>

\* print(f"Job ID: {id}")
SubmitPrintJobId ==
    /\ spc = "print"
    /\ spc' = "finally"
    /\ UNCHANGED <<identity_file, working_dir, process, tunnel, terminate_calls,
                   tries, client, connlog, jobs, exc, outcome>>

\* any other exception raised inside the try block (KeyboardInterrupt, a
\* fault of Path.absolute, ...)
SubmitFault ==
    /\ spc \in TryPositions
    /\ exc' = "Fault"
    /\ spc' = "finally"
    /\ UNCHANGED <<identity_file, working_dir, process, tunnel, terminate_calls,
                   tries, client, connlog, jobs, outcome>>

SubmitFinallyOnlyOnSuccess ==
    /\ spc = "finally"
    /\ IF exc = ""
       THEN /\ terminate_calls' = terminate_calls + 1
            /\ tunnel' = IF tunnel = "running" THEN "terminated" ELSE tunnel
       ELSE UNCHANGED <<terminate_calls, tunnel>>
    /\ outcome' = IF exc = "" THEN "ok" ELSE exc
    /\ spc' = "done"
    /\ UNCHANGED <<identity_file, working_dir, process, tries, client, connlog,
                   jobs, exc>>

\* finally: process.terminate(); then the return, or the exception goes on
SubmitFinally ==
    /\ spc = "finally"
    /\ terminate_calls' = terminate_calls + 1
    /\ tunnel' = IF tunnel = "running" THEN "terminated" ELSE tunnel
    /\ outcome' = IF exc = "" THEN "ok" ELSE exc
    /\ spc' = "done"
    /\ UNCHANGED <<identity_file, working_dir, process, tries, client, connlog,
                   jobs, exc>>

\* the ssh process ends by itself (the connection is refused or drops)
TunnelExits ==
    /\ tunnel = "running"
    /\ tunnel' = "exited"
    /\ UNCHANGED <<spc, identity_file, working_dir, process, terminate_calls,
                   tries, client, connlog, jobs, exc, outcome>>

\* the ssh child has authenticated and its forwards are up
TunnelEstablishes ==
    /\ tunnel = "running"
    /\ ~established
    /\ established' = TRUE
    /\ UNCHANGED submitVars

\* the job goes on at the cluster: PENDING, RUNNING, then a terminal status
JobAdvances ==
    /\ IsSome(job_status)
    /\ \/ Get(job_status) = "PENDING" /\ job_status' \in {Some("RUNNING"), Some("FAILED"), Some("STOPPED")}
       \/ Get(job_status) = "RUNNING" /\ job_status' \in {Some("SUCCEEDED"), Some("FAILED"), Some("STOPPED")}

SubmitNext ==
    \/ SubmitSpawnTunnel /\ UNCHANGED <<resolveVars, inventory, headVars, restVars, established, job_status>>
    \/ SubmitEnterTry /\ UNCHANGED <<spawnlog, resolveVars, inventory, headVars, restVars, established, job_status>>
    \/ SubmitLoopTest /\ UNCHANGED <<spawnlog, resolveVars, inventory, headVars, restVars, established, job_status>>
    \/ SubmitConnect /\ UNCHANGED <<spawnlog, resolveVars, inventory, headVars, restVars, established, job_status>>
    \/ SubmitSleep /\ UNCHANGED <<spawnlog, resolveVars, inventory, headVars, restVars, established, job_status>>
    \/ SubmitAssertClient /\ UNCHANGED <<spawnlog, resolveVars, inventory, headVars, restVars, established, job_status>>
    \/ SubmitJob /\ UNCHANGED <<spawnlog, resolveVars, inventory, headVars, restVars, established>>
    \/ SubmitPrintJobId /\ UNCHANGED <<spawnlog, resolveVars, inventory, headVars, restVars, established, job_status>>
    \/ SubmitFault /\ UNCHANGED <<spawnlog, resolveVars, inventory, headVars, restVars, established, job_status>>
    \/ SubmitFinally /\ UNCHANGED <<spawnlog, resolveVars, inventory, headVars, restVars, established, job_status>>
    \/ TunnelExits /\ UNCHANGED <<spawnlog, resolveVars, inventory, headVars, restVars, established, job_status>>
    \/ TunnelEstablishes /\ UNCHANGED <<resolveVars, inventory, headVars, restVars, job_status>>
    \/ JobAdvances /\ UNCHANGED <<resolveVars, inventory, headVars, submitVars, restVars, established>>

InitSubmit ==
    /\ ResolveIdle /\ HeadIdle /\ SubmitIdle /\ OthersIdle
    /\ inventory \in SeqsUpTo(InstanceRecords, MaxSubmitInstances)

SpecSubmit == InitSubmit /\ [][SubmitNext]_vars

----------------------------------------------------------------------------
(* Operations on the inventory, each with the query it issues: the answer  *)
(* of the `aws` child process is any exit status, stdout and stderr.       *)

\* helpers.get_state_map()
GetStateMap ==
    /\ qpc = "idle"
    /\ \E completed \in Responses :
          /\ response' = completed
          /\ qresult' = get_state_map(completed)
    /\ queries' = queries + 1
    /\ configured_region' = None
    /\ queried_region' = Some(QueryRegion)
    /\ qimpl' = "get_state_map"
    /\ qpc' = "done"

\* commands.list()
List ==
    /\ qpc = "idle"
    /\ \E completed \in Responses :
          /\ response' = completed
          /\ qresult' = list(completed)
    /\ queries' = queries + 1
    /\ configured_region' = None
    /\ queried_region' = Some(QueryRegion)
    /\ qimpl' = "list"
    /\ qpc' = "done"

\* helpers._get_ip(config_bundle), with custom_config.setup.name = "x" and
\* custom_config.region the configured region
HelpersGetIpQuery ==
    /\ qpc = "idle"
    /\ \E completed \in Responses :
          /\ response' = completed
          /\ qresult' = _get_ip_query(completed, "x")
    /\ queries' = queries + 1
    /\ configured_region' \in {Some(r) : r \in {DefaultRegion} \cup Regions}
    /\ queried_region' = Some(QueryRegion)
    /\ qimpl' = "_get_ip"
    /\ qpc' = "done"

\* __init__.get_ip(config), with final_config["cluster_name"] = "x" and
\* final_config["provider"]["region"] the configured region
InitGetIpQuery ==
    /\ qpc = "idle"
    /\ \E completed \in Responses :
          /\ response' = completed
          /\ qresult' = get_ip_query(completed, "x")
    /\ queries' = queries + 1
    /\ configured_region' \in {Some(r) : r \in {DefaultRegion} \cup Regions}
    /\ queried_region' = Some(QueryRegion)
    /\ qimpl' = "get_ip"
    /\ qpc' = "done"

\* the caller has its answer, or the exception
QueryReturn ==
    /\ qpc = "done"
    /\ qpc' = "idle"
    /\ qimpl' = "none"
    /\ response' = NoResponse
    /\ queries' = 0
    /\ qresult' = QueryReturned(None, <<>>)
    /\ configured_region' = None
    /\ queried_region' = None

InventoryNext ==
    \/ GetStateMap /\ UNCHANGED <<resolveVars, inventory, headVars, submitVars, sshVars, streamVars, established, job_status>>
    \/ List /\ UNCHANGED <<resolveVars, inventory, headVars, submitVars, sshVars, streamVars, established, job_status>>
    \/ HelpersGetIpQuery /\ UNCHANGED <<resolveVars, inventory, headVars, submitVars, sshVars, streamVars, established, job_status>>
    \/ InitGetIpQuery /\ UNCHANGED <<resolveVars, inventory, headVars, submitVars, sshVars, streamVars, established, job_status>>
    \/ QueryReturn /\ UNCHANGED <<resolveVars, inventory, headVars, submitVars, sshVars, streamVars, established, job_status>>

InitInventory == ResolveIdle /\ inventory = <<>> /\ HeadIdle /\ SubmitIdle /\ OthersIdle

SpecInventory == InitInventory /\ [][InventoryNext]_vars

----------------------------------------------------------------------------
(* helpers.ssh: the tunnel is spawned with its stdout and stderr on pipes, *)
(* then the child's stdout is read to its end.                             *)

\* process = subprocess.Popen(_ssh_command(config_bundle, ...), stdout=PIPE,
\* stderr=PIPE, text=True): _get_ip raises, or Popen raises, or the child
\* is running; Popen leaves process.returncode at None
SshSpawn ==
    /\ tpc = "idle"
    /\ tresult = ""
    /\ \E i \in Opt({"key.pem"}), pf \in SeqsUpTo(AdditionalPorts, MaxPorts) :
          /\ identity_file' = i
          /\ additional_port_forwards' = pf
          /\ LET c == _ssh_command(inventory, "x", i, pf)
             IN  \/ /\ c.error # ""
                    /\ tresult' = c.error
                    /\ tpc' = "done"
                    /\ UNCHANGED <<command, process, tunnel>>
                 \/ /\ c.error = ""
                    /\ command' = c.command
                    /\ process' = Some([target |-> c.command[Len(c.command)].host,
                                        identity |-> i])
                    /\ tunnel' = "running"
                    /\ tpc' = "returncode"
                    /\ UNCHANGED tresult
                 \/ /\ c.error = ""
                    /\ command' = c.command
                    /\ tresult' = "PopenError"
                    /\ tpc' = "done"
                    /\ UNCHANGED <<process, tunnel>>
    /\ returncode' = None
    /\ UNCHANGED <<printed, spc, working_dir, terminate_calls, tries, client,
                   connlog, jobs, exc, outcome>>

\* if process.returncode and process.returncode != 0: raise ClickException
\* else: assert process.stdout; process.stdout.readable() is true of a pipe
\* opened for reading
SshCheckReturncode ==
    /\ tpc = "returncode"
    /\ IF IsSome(returncode) /\ Get(returncode) # 0
       THEN tresult' = "FailedToAttach" /\ tpc' = "done"
       ELSE tresult' = tresult /\ tpc' = "read"
    /\ UNCHANGED <<additional_port_forwards, command, returncode, printed, submitVars>>

\* if text := process.stdout.read(): print(text); return process
\* read() returns at the end of the file, which the pipe reaches when the
\* child has closed its stdout: ssh -N does so by exiting
SshRead ==
    /\ tpc = "read"
    /\ tunnel # "running"
    /\ \E text \in {"", "Connection refused"} :
          printed' = IF text # "" THEN Append(printed, text) ELSE printed
    /\ tresult' = "handle"
    /\ tpc' = "done"
    /\ UNCHANGED <<additional_port_forwards, command, returncode, submitVars>>

SshStep ==
    \/ SshSpawn /\ UNCHANGED <<spawnlog, resolveVars, inventory, headVars, queryVars, streamVars, established, job_status>>
    \/ SshCheckReturncode /\ UNCHANGED <<resolveVars, inventory, headVars, queryVars, streamVars, established, job_status>>
    \/ SshRead /\ UNCHANGED <<resolveVars, inventory, headVars, queryVars, streamVars, established, job_status>>

TunnelNext ==
    \/ SshStep
    \/ TunnelEstablishes /\ UNCHANGED <<resolveVars, inventory, headVars, restVars, job_status>>
    \/ TunnelExits /\ UNCHANGED <<spawnlog, resolveVars, inventory, headVars, restVars, established, job_status>>

InitTunnel ==
    /\ ResolveIdle /\ HeadIdle /\ SubmitIdle /\ OthersIdle
    /\ inventory \in SeqsUpTo(InstanceRecords, MaxSubmitInstances)

SpecTunnel == InitTunnel /\ [][TunnelNext]_vars

\* ssh runs on: the interpreter takes every step that is enabled. Nothing
\* makes the child exit.
SpecTunnelLive == InitTunnel /\ [][TunnelNext]_vars /\ WF_vars(SshStep)

----------------------------------------------------------------------------
(* helpers.wait_on_job / print_logs: the log stream of a submitted job is  *)
(* iterated and each item printed.                                         *)

\* the job writes to its log (the cluster, not the tool)
JobWrites ==
    /\ stream_open
    /\ Len(stream) < MaxLines
    /\ \E l \in LogLines : stream' = Append(stream, l)
    /\ UNCHANGED <<lpc, stream_open, nread, lines, written>>

\* the stream ends: the job is over, or the connection to the cluster drops
StreamEnds ==
    /\ stream_open
    /\ stream_open' = FALSE
    /\ UNCHANGED <<lpc, stream, nread, lines, written>>

\* wait_on_job(logs): await asyncio.wait_for(print_logs(logs), timeout=None)
WaitOnJob ==
    /\ lpc = "idle"
    /\ lpc' = "next"
    /\ UNCHANGED <<stream, stream_open, nread, lines, written>>

\* async for lines in logs: the next item of the stream, or, at its end, the
\* loop is left and print_logs, wait_for and wait_on_job return; with the
\* stream open and nothing to take the iteration waits
PrintLogsAnext ==
    /\ lpc = "next"
    /\ IF nread < Len(stream)
       THEN /\ lines' = Some(stream[nread + 1])
            /\ nread' = nread + 1
            /\ lpc' = "print"
       ELSE /\ ~stream_open
            /\ lines' = None
            /\ nread' = nread
            /\ lpc' = "returned"
    /\ UNCHANGED <<stream, stream_open, written>>

PrintLogsPrintNewestFirst ==
    /\ lpc = "print"
    /\ written' = <<Get(lines)>> \o written
    /\ lpc' = "next"
    /\ UNCHANGED <<stream, stream_open, nread, lines>>

\* print(lines, end=""): the item goes to stdout as it is
PrintLogsPrint ==
    /\ lpc = "print"
    /\ written' = Append(written, Get(lines))
    /\ lpc' = "next"
    /\ UNCHANGED <<stream, stream_open, nread, lines>>

StreamNext ==
    \/ JobWrites /\ UNCHANGED <<resolveVars, inventory, headVars, submitVars, queryVars, sshVars, established, job_status>>
    \/ StreamEnds /\ UNCHANGED <<resolveVars, inventory, headVars, submitVars, queryVars, sshVars, established, job_status>>
    \/ JobAdvances /\ UNCHANGED <<resolveVars, inventory, headVars, submitVars, restVars, established>>
    \/ WaitOnJob /\ UNCHANGED <<resolveVars, inventory, headVars, submitVars, queryVars, sshVars, established, job_status>>
    \/ PrintLogsAnext /\ UNCHANGED <<resolveVars, inventory, headVars, submitVars, queryVars, sshVars, established, job_status>>
    \/ PrintLogsPrint /\ UNCHANGED <<resolveVars, inventory, headVars, submitVars, queryVars, sshVars, established, job_status>>

\* a job has been submitted and its log stream opened
InitStream ==
    /\ ResolveIdle /\ inventory = <<>> /\ HeadIdle /\ SubmitIdle
    /\ QueryIdle /\ SshIdle /\ StreamIdle
    /\ established = FALSE
    /\ job_status = Some("PENDING")

SpecStream == InitStream /\ [][StreamNext]_vars

----------------------------------------------------------------------------
(* Claims about head resolution.                                           *)

HasTag(r, k, v) == \E i \in 1 .. Len(r.tags) : r.tags[i] = Tag(k, v)

\* the records that are running, tagged node-role = head and tagged with the
\* cluster name asked for
MatchingHeads ==
    {i \in 1 .. Len(inventory) :
        /\ inventory[i].state = "running"
        /\ HasTag(inventory[i], "ray-node-type", "head")
        /\ HasTag(inventory[i], "ray-cluster-name", hname)}

HeadResolved == hpc = "done"

\* the errors that say the cluster was not found or is not running:
\*   helpers._get_ip   "Could not find the public ip of <name>'s head node."
\*   find_ip           "The IP of the cluster with the name '<name>' not found."
\*   get_ip            "The cluster <name> is not running; cannot connect to it."
ClusterNotRunningErrors == {"CouldNotFindPublicIp", "IpNotFound", "NotRunning"}

\* C7: with more than one running head record of the cluster, head
\* resolution fails with a data-integrity error, distinct from the not-found /
\* not-running error; it never returns the address of the first such record.
C7_MultipleHeadsIsAnError ==
    (HeadResolved /\ Cardinality(MatchingHeads) > 1) =>
        /\ hresult.error # ""
        /\ hresult.error \notin ClusterNotRunningErrors

\* C8: when the only matching record has no public address, head resolution
\* fails with the head-node-unreachable error, which is not the
\* cluster-not-running error; it never returns an absent address as a success.
C8_HeadWithoutAddressIsAnError ==
    (/\ HeadResolved
     /\ Cardinality(MatchingHeads) = 1
     /\ \A i \in MatchingHeads : ~IsSome(inventory[i].ip)) =>
        /\ hresult.error # ""
        /\ hresult.error \notin ClusterNotRunningErrors

\* C9: with exactly one matching record, which has an address, head
\* resolution returns that address, whatever other records the inventory
\* holds and whatever their order.
C9_SingleHeadAddressReturned ==
    (/\ HeadResolved
     /\ Cardinality(MatchingHeads) = 1
     /\ \A i \in MatchingHeads : IsSome(inventory[i].ip)) =>
        /\ hresult.error = ""
        /\ \A i \in MatchingHeads : hresult.ip = inventory[i].ip

\* C10: with no record that is at once running, a head and of the cluster
\* asked for, head resolution fails with the cluster-not-running error.
C10_NoHeadIsClusterNotRunning ==
    (HeadResolved /\ MatchingHeads = {}) =>
        hresult.error \in ClusterNotRunningErrors

\* C10 witness: the inventory holds a terminated head and a running worker of
\* the cluster and a running head of another one, and resolution has failed
C10_Witness ==
    /\ HeadResolved
    /\ himpl = "helpers"
    /\ MatchingHeads = {}
    /\ \E i, j, k \in 1 .. Len(inventory) :
          /\ inventory[i] = InstanceInformation("terminated", "x", "head", None)
          /\ inventory[j] = InstanceInformation("running", "x", "worker", Some("1.2.3.4"))
          /\ inventory[k] = InstanceInformation("running", "y", "head", Some("5.6.7.8"))
    /\ hresult.error = "CouldNotFindPublicIp"

----------------------------------------------------------------------------
(* Claims about job submission.                                            *)

SubmitReturned == spc = "done"

AllRefused == \A i \in 1 .. Len(connlog) : ~connlog[i]

\* C4: on every exit path of submit that has spawned the tunnel process
\* (success, connection retries exhausted, submit_job raising, any other
\* fault inside the flow) process.terminate() has been called before the flow
\* returns, and no terminal state leaves the tunnel running.
C4_TunnelTerminatedOnEveryExit ==
    (SubmitReturned /\ IsSome(process)) =>
        /\ terminate_calls = 1
        /\ tunnel \in {"terminated", "exited"}

\* C4 witness: the flow ended on a fault inside the try block, after the
\* client had connected, and the tunnel it had spawned is terminated
C4_Witness ==
    /\ SubmitReturned
    /\ IsSome(process)
    /\ outcome = "Fault"
    /\ client
    /\ tunnel = "terminated"

\* C5: when the endpoint never becomes connectable, submit fails with the
\* connection error after exactly max_tries = 3 connection attempts, not
\* fewer and not more, and no job is submitted.
C5_ExactlyMaxTriesAttempts ==
    /\ Len(connlog) <= max_tries
    /\ exc = "ConnectionError" =>
          /\ Len(connlog) = max_tries
          /\ AllRefused
          /\ jobs = <<>>
    /\ (SubmitReturned /\ connlog # <<>> /\ AllRefused /\ outcome # "Fault") =>
          /\ outcome = "ConnectionError"
          /\ Len(connlog) = max_tries
          /\ jobs = <<>>

\* C5 witness: three attempts were refused and submit has failed
C5_Witness ==
    /\ SubmitReturned
    /\ connlog = <<FALSE, FALSE, FALSE>>
    /\ outcome = "ConnectionError"
    /\ jobs = <<>>

\* the endpoint refused the attempts before the last one and accepted the last
AcceptedAtLast ==
    /\ connlog # <<>>
    /\ connlog[Len(connlog)]
    /\ \A i \in 1 .. Len(connlog) - 1 : ~connlog[i]

\* C6: when the endpoint refuses the first N-1 connection attempts and accepts
\* the Nth, N within the bound, the loop stops retrying at attempt N (no
\* attempt follows the accepted one), the job is submitted, once, and submit
\* succeeds unless submit_job itself raises or a fault interrupts the flow.
C6_StopsAtFirstAcceptedAttempt ==
    /\ client => AcceptedAtLast
    /\ (\E i \in 1 .. Len(connlog) : connlog[i]) => (client /\ AcceptedAtLast)
    /\ (SubmitReturned /\ client /\ outcome \notin {"Fault", "SubmitError"}) =>
          /\ outcome = "ok"
          /\ Len(jobs) = 1
    /\ (SubmitReturned /\ outcome = "ok") => (client /\ Len(jobs) = 1)

\* C6 witness: the first attempt was refused, the second accepted, the job
\* submitted and submit returned normally
C6_Witness ==
    /\ SubmitReturned
    /\ connlog = <<FALSE, TRUE>>
    /\ Len(jobs) = 1
    /\ outcome = "ok"

----------------------------------------------------------------------------
(* Claims about the inventory query.                                       *)

QueryDone == qpc = "done"

IsJson(stdout) == stdout.text = "[[...]]"

\* the query failed in its transport: a non-zero exit status, an empty body
\* or a body that is not JSON
TransportFailed ==
    \/ response.returncode # 0
    \/ response.stdout.text = ""
    \/ ~IsJson(response.stdout)

\* the inventory errors, all click.UsageError:
\*   CredentialsExpired          "AWS token has expired. Please run ..."
\*   MalformedInventoryResponse  "Failed to parse AWS command into json (empty response string)"
\*   MalformedInventoryResponse  "Failed to parse AWS command output: ..."
\* (nothing in the code raises an InventoryQueryFailed of its own)
InventoryErrors == {"TokenExpired", "EmptyResponse", "UnparsableResponse"}

\* C11: whenever the inventory query fails in its transport (empty body,
\* non-JSON body, non-zero exit status, expired-credential text on stderr),
\* the snapshot, list or head-resolution operation that issued it ends with
\* one of the inventory errors; no raw parser or transport exception and no
\* success comes out of it.
C11_TransportFailureIsAnInventoryError ==
    (QueryDone /\ TransportFailed) => qresult.error \in InventoryErrors

\* C12: a query whose process exits with a non-zero status never yields a
\* successful result, whatever its stdout and stderr hold: the operation ends
\* with an inventory error and returns or prints no instance records.
C12_NonZeroExitNeverSucceeds ==
    (/\ QueryDone
     /\ qimpl \in {"get_state_map", "list", "_get_ip"}
     /\ response.returncode # 0) =>
        /\ qresult.error # ""
        /\ qresult.groups = <<>>
        /\ qresult.ip = None

\* the positions of the response at which a lifecycle state is seen first
FirstSeenAt ==
    LET body == response.stdout.body
    IN  {i \in 1 .. Len(body) : \A j \in 1 .. (i - 1) : body[j].state # body[i].state}

KthFirstSeen(k) ==
    LET body == response.stdout.body
        i == CHOOSE i \in FirstSeenAt : Cardinality({j \in FirstSeenAt : j < i}) = k - 1
    IN  body[i].state

InState(state) ==
    SelectSeq(response.stdout.body, LAMBDA r : r.state = state)

\* the heading list prints for a lifecycle state
Heading(state) == IF state = "running" THEN "Running" ELSE "Terminated"

\* C13: a snapshot issues exactly one query and returns the records grouped
\* by lifecycle state, the keys in the order in which each state is first
\* seen in the response and each group in the order of the response; list
\* issues one query and prints one group per state in that same order.
C13_SnapshotGroupsInFirstSeenOrder ==
    (QueryDone /\ qimpl \in {"get_state_map", "list"} /\ qresult.error = "") =>
        /\ queries = 1
        /\ Len(qresult.groups) = Cardinality(FirstSeenAt)
        /\ \A k \in 1 .. Len(qresult.groups) :
              IF qimpl = "get_state_map"
              THEN /\ qresult.groups[k].state = KthFirstSeen(k)
                   /\ qresult.groups[k].members = InState(KthFirstSeen(k))
              ELSE /\ qresult.groups[k].state = Heading(KthFirstSeen(k))
                   /\ Len(qresult.groups[k].members) = Len(InState(KthFirstSeen(k)))
                   /\ \A j \in 1 .. Len(qresult.groups[k].members) :
                         qresult.groups[k].members[j].ip = InState(KthFirstSeen(k))[j].ip

\* C13 witness: a snapshot of a response whose states are terminated,
\* running, terminated: two groups, terminated first
C13_Witness ==
    /\ QueryDone
    /\ qimpl = "get_state_map"
    /\ qresult.error = ""
    /\ Len(response.stdout.body) = 3
    /\ response.stdout.body[1].state = "terminated"
    /\ response.stdout.body[2].state = "running"
    /\ response.stdout.body[3].state = "terminated"
    /\ Len(qresult.groups) = 2
    /\ qresult.groups[1].state = "terminated"
    /\ Len(qresult.groups[1].members) = 2

----------------------------------------------------------------------------
(* Claims about the tunnel.                                                *)

\* the ports the command forwards from the local side to the same port of
\* the remote loopback: the arguments of its -L options
LocalForwards(cmd) ==
    {cmd[i + 1].port : i \in {j \in 1 .. (Len(cmd) - 1) :
                                /\ cmd[j] = Word("-L")
                                /\ cmd[j + 1] = Forwarding(cmd[j + 1].port)}}

PortsAskedFor == {additional_port_forwards[i] : i \in 1 .. Len(additional_port_forwards)}

\* C14: the command built for the tunnel forwards, with -L, the dashboard
\* port 8265 and every port of the caller's additional list, each as
\* p:localhost:p; no port asked for is missing and no other port is forwarded.
C14_EveryPortAskedForIsForwarded ==
    command # <<>> => LocalForwards(command) = {DashboardPort} \cup PortsAskedFor

\* C15: once the ssh child has established its session, and as long as it
\* keeps running, the call that opens the tunnel returns: it does not wait
\* for the child to exit.
C15_OpenReturnsWhileChildRuns ==
    (tpc = "read" /\ tunnel = "running" /\ established)
        ~> (tpc = "done" \/ tunnel # "running")

\* the errors that say the tunnel could not be established:
\*   "Failed to attach to the remote server. Return code: ..."
\*   "Unable to establish a connection to the remote server."
TunnelErrors == {"FailedToAttach", "UnableToEstablish"}

\* C16: when the call that opens the tunnel ends after the child has exited
\* by itself (ssh -N does so only with a non-zero status), it ends with the
\* tunnel-establishment error; the handle of a dead process is never
\* returned as a success.
C16_DeadTunnelIsNeverReturned ==
    [][(tpc # "done" /\ tpc' = "done" /\ tunnel = "exited")
          => tresult' \in TunnelErrors]_vars

----------------------------------------------------------------------------
(* Claims about the phases of a submission and about the log stream.       *)

\* C17: in the submission flow every connection attempt is made after the
\* tunnel has been established; none is made before, and none after the
\* tunnel failed to establish.
C17_NoConnectBeforeTunnelEstablished ==
    [][Len(connlog') > Len(connlog) => established]_vars

TerminalStatuses == {"SUCCEEDED", "FAILED", "STOPPED"}

JobResultKnown == IsSome(job_status) /\ Get(job_status) \in TerminalStatuses

\* C18: a successful submission has gone through Connecting, Submitted,
\* Streaming and Terminal: when it has closed the tunnel and returned, the
\* endpoint was connected, the job submitted, its log stream tailed to the
\* end, and the job's result is known.
C18_SuccessfulRunReachesTerminal ==
    (SubmitReturned /\ outcome = "ok") =>
        /\ Len(connlog) > 0
        /\ Len(jobs) > 0
        /\ lpc = "returned"
        /\ JobResultKnown

\* C19: when the log stream is exhausted and the flow goes on normally, the
\* job's status is one of succeeded, failed or stopped; on any other status
\* the flow fails (PrematureStreamEnd) instead of returning.
C19_ReturnsOnlyOnTerminalStatus ==
    lpc = "returned" => JobResultKnown

\* C20: what has been printed is, item by item and in order, what has been
\* taken from the stream; an item is printed before the next one is taken;
\* and when the stream is exhausted everything it held has been printed once.
C20_LinesForwardedInArrivalOrder ==
    /\ Len(written) = (IF lpc = "print" THEN nread - 1 ELSE nread)
    /\ Len(written) <= Len(stream)
    /\ \A i \in 1 .. Len(written) : written[i] = stream[i]
    /\ lpc = "returned" => written = stream

\* C20 witness: a stream of three items, l1 l2 l1, tailed to its end
C20_Witness ==
    /\ lpc = "returned"
    /\ stream = <<"l1", "l2", "l1">>
    /\ written = <<"l1", "l2", "l1">>

----------------------------------------------------------------------------
(* Claims about repeated resolution.                                       *)

SameInput(i, j) ==
    /\ history[i].impl = history[j].impl
    /\ history[i].raw = history[j].raw

----------------------------------------------------------------------------
(* Claims about manifest resolution.                                       *)

ManifestProduced == rpc = "done" /\ IsSome(result.manifest)

\* setup.number_of_workers as the user declared it: the value given, 2 when omitted
DeclaredNumberOfWorkers ==
    IF IsSome(Get(raw.setup).number_of_workers)
    THEN Get(Get(raw.setup).number_of_workers)
    ELSE DefaultNumberOfWorkers

\* C1: in every manifest produced by resolution the worker template's
\* min_workers, its max_workers and the cluster-level max_workers are equal
\* to each other and to setup.number_of_workers (0 and the omitted case,
\* which defaults to 2, included).
C1_WorkerBoundsAreNumberOfWorkers ==
    ManifestProduced =>
        LET m == Get(result.manifest)
        IN  /\ m.worker_min_workers = m.worker_max_workers
            /\ m.worker_max_workers = m.max_workers
            /\ m.max_workers = DeclaredNumberOfWorkers

DeclaredPreSetupCommands ==
    IF IsSome(raw.run) /\ IsSome(Get(raw.run).pre_setup_commands)
    THEN Get(Get(raw.run).pre_setup_commands) ELSE <<>>

DeclaredSetupCommands ==
    IF IsSome(raw.run) /\ IsSome(Get(raw.run).setup_commands)
    THEN Get(Get(raw.run).setup_commands) ELSE <<>>

\* the generated installer commands: those derived from the pinned versions
\* (data_definitions.py, merge.py); the provider defaults' installer commands
\* and the install of the dependencies, when declared (configs.py)
GeneratedCommands ==
    IF impl = "data_definitions"
    THEN _generate_setup_commands(raw)
    ELSE DefaultInstallerCommands
         \o (IF IsSome(Get(raw.setup).dependencies)
             THEN <<Cmd("uv pip install", Get(Get(raw.setup).dependencies))>>
             ELSE <<>>)

\* C2: the manifest's bootstrap command list is exactly pre_setup_commands,
\* then the generated installer commands, then setup_commands, whether or
\* not pre_setup_commands, setup_commands or dependencies are present.
C2_BootstrapCommandOrder ==
    (ManifestProduced /\ impl \in {"data_definitions", "configs"}) =>
        Get(result.manifest).setup_commands =
            DeclaredPreSetupCommands \o GeneratedCommands \o DeclaredSetupCommands

\* C2 witness: pre_setup_commands = ["A"], setup_commands = ["C"] resolved
C2_Witness ==
    /\ ManifestProduced
    /\ impl = "data_definitions"
    /\ DeclaredPreSetupCommands = <<Cmd("A", <<>>)>>
    /\ DeclaredSetupCommands = <<Cmd("C", <<>>)>>
    /\ Len(Get(result.manifest).setup_commands) = 10

VersionDiffers ==
    /\ rpc = "done"
    /\ impl = "data_definitions"
    /\ IsSome(raw.daft_launcher_version)
    /\ Get(raw.daft_launcher_version) # daft_launcher_version

\* the file has a setup section, the provider "aws" and the required fields
StructurallyValid ==
    /\ IsSome(raw.daft_launcher_version)
    /\ IsSome(raw.setup)
    /\ Get(raw.setup).provider = Some("aws")
    /\ IsSome(Get(raw.setup).name)

\* C3 as stated: a declared version that differs from the tool's always fails
\* resolution with the version-mismatch error, and the manifest-building step
\* is never reached.
C3_MismatchAlwaysMismatchError ==
    VersionDiffers =>
        /\ result.error = "VersionMismatch"
        /\ result.manifest = None
        /\ \A i \in 1 .. Len(result.steps) : result.steps[i] # "build"

\* C3 amended: a declared version that differs from the tool's always fails
\* resolution without reaching the manifest-building step; the failure is the
\* version-mismatch error when the file is structurally valid, and the error
\* of the construction of the configuration otherwise.
C3_MismatchNeverBuilds ==
    VersionDiffers =>
        /\ result.error # ""
        /\ result.manifest = None
        /\ \A i \in 1 .. Len(result.steps) : result.steps[i] # "build"
        /\ StructurallyValid <=> result.error = "VersionMismatch"

\* C3 witness: a structurally valid file of version 0.1.0 was rejected
C3_Witness ==
    /\ VersionDiffers
    /\ StructurallyValid
    /\ result.error = "VersionMismatch"

----------------------------------------------------------------------------
(* Claims about the provider's keys.                                       *)

DeclaredInstanceType ==
    IF IsSome(raw.aws.instance_type) THEN Get(raw.aws.instance_type)
    ELSE DefaultInstanceType

DeclaredImageId ==
    IF IsSome(raw.aws.image_id) THEN Get(raw.aws.image_id) ELSE DefaultImageId

Stepped(name) == \E i \in 1 .. Len(result.steps) : result.steps[i] = name

UnsupportedProvider ==
    /\ rpc = "done"
    /\ IsSome(raw.setup)
    /\ IsSome(Get(raw.setup).provider)
    /\ Get(Get(raw.setup).provider) # "aws"

\* C23: a file whose setup.provider is anything other than "aws" fails
\* resolution with the unsupported-provider error: no provider defaults are
\* loaded, nothing is merged or built, and no manifest is produced.
C23_UnsupportedProviderIsRejected ==
    UnsupportedProvider =>
        /\ result.error = "ProviderNotFound"
        /\ result.manifest = None
        /\ ~Stepped("yaml.safe_load")
        /\ ~Stepped("merge")
        /\ ~Stepped("build")

\* C23 witness: configs.py was given an otherwise valid file for "gcp"
C23_Witness ==
    /\ UnsupportedProvider
    /\ impl = "configs"
    /\ Get(raw.setup).name = Some("x")
    /\ raw.daft_launcher_version = Some("0.2.0")
    /\ result.error = "ProviderNotFound"
    /\ result.steps = <<"get_custom_config", "get_ray_config">>

\* C29: every provider key the file gives is in the manifest produced: an
\* instance-profile ARN is the Arn of the IamInstanceProfile of the head and
\* of the worker node template, a region is the provider's region, and an
\* ssh user is the auth user.
C29_ProviderKeysReachTheManifest ==
    ManifestProduced =>
        LET m == Get(result.manifest)
            a == raw.aws
        IN  /\ IsSome(a.region) => m.region = Get(a.region)
            /\ IsSome(a.ssh_user) => m.ssh_user = Get(a.ssh_user)
            /\ IsSome(a.iam_instance_profile_arn) =>
                   /\ m.head_IamInstanceProfile_Arn = Get(a.iam_instance_profile_arn)
                   /\ m.worker_IamInstanceProfile_Arn = Get(a.iam_instance_profile_arn)

----------------------------------------------------------------------------
(* Claims about the validation of the file.                                *)

\* the file lacks the setup section, the provider key, or (for the
\* generation that validates them) a required field
StructurallyInvalid ==
    /\ rpc = "done"
    /\ \/ ~IsSome(raw.setup)
       \/ ~IsSome(Get(raw.setup).provider)
       \/ /\ impl = "data_definitions"
          /\ Get(raw.setup).provider = Some("aws")
          /\ ~PydanticValid(raw)

\* the errors that name what the file lacks
ValidationErrors == {"NoSetupSection", "NoProviderValue", "ValidationError"}

\* C24: a structurally invalid file (no setup section, no provider key, a
\* required field missing) always fails resolution with a validation error
\* that names what is invalid, never with a raw lookup fault, and no
\* manifest is produced.
C24_InvalidFileIsAValidationError ==
    StructurallyInvalid =>
        /\ result.error \in ValidationErrors
        /\ result.manifest = None

\* C25: every manifest produced by resolution comes from a file that gives
\* a non-empty setup.name, and its cluster name is that name; a file
\* without setup.name, or with an empty one, fails resolution.
C25_ClusterNameIsSetupName ==
    (ManifestProduced /\ impl \in {"data_definitions", "configs"}) =>
        /\ IsSome(Get(raw.setup).name)
        /\ Get(Get(raw.setup).name) # ""
        /\ Get(result.manifest).cluster_name = Get(Get(raw.setup).name)

----------------------------------------------------------------------------
(* Claims about what submit repeats.                                       *)

CallsOf(name) == Cardinality({i \in 1 .. Len(spawnlog) : spawnlog[i] = name})

\* C26: within one submit the head-resolution query, the tunnel spawn and
\* the job submission are each made at most once; a failure of the query or
\* of the spawn ends the operation with that error before any connection
\* attempt, a failure of the job submission ends it with that error, and
\* every connection attempt but the last one made is a failed one.
C26_OnlyConnectionAttemptsAreRetried ==
    /\ CallsOf("get_ip") <= 1
    /\ CallsOf("Popen") <= 1
    /\ Len(jobs) <= 1
    /\ \A i \in 1 .. Len(connlog) - 1 : ~connlog[i]
    /\ (spc = "done" /\ process = None) =>
           /\ outcome \notin {"", "ok"}
           /\ connlog = <<>>
           /\ jobs = <<>>
           /\ outcome = "PopenError" <=> CallsOf("Popen") = 1
    /\ exc = "SubmitError" =>
           /\ Len(jobs) = 1
           /\ spc \in {"finally", "done"}
           /\ spc = "done" => outcome = "SubmitError"

\* C26 witness: the second connection attempt was accepted, submit_job
\* raised, and submit ended with that error
C26_Witness ==
    /\ spc = "done"
    /\ outcome = "SubmitError"
    /\ connlog = <<FALSE, TRUE>>
    /\ spawnlog = <<"get_ip", "Popen">>
    /\ Len(jobs) = 1

\* C27: the job is submitted only after a connection attempt succeeded, and
\* at most once: whenever control reaches `assert client` the client is set
\* (the assertion never fails), a submit_job call is preceded by an accepted
\* attempt, the last one made, and when every attempt was refused no
\* submit_job call is made.
C27_SubmitOnlyWithAClient ==
    /\ spc \in {"assert", "submit_job", "print"} => client
    /\ exc # "AssertionError"
    /\ outcome # "AssertionError"
    /\ client <=> (connlog # <<>> /\ connlog[Len(connlog)])
    /\ jobs # <<>> => (client /\ Len(jobs) = 1)
    /\ (\A i \in 1 .. Len(connlog) : ~connlog[i]) => jobs = <<>>

\* C27 witness: three attempts were refused and submit ended with the
\* connection error, no job submitted
C27_Witness ==
    /\ spc = "done"
    /\ connlog = <<FALSE, FALSE, FALSE>>
    /\ outcome = "ConnectionError"
    /\ jobs = <<>>
    /\ terminate_calls = 1

----------------------------------------------------------------------------
(* Claims about the region of the inventory query.                         *)

\* C30: the inventory query of a head resolution is issued against the
\* region of the cluster's resolved configuration, also when that region is
\* not the default one.
C30_QueryGoesToTheConfiguredRegion ==
    (QueryDone /\ IsSome(configured_region)) =>
        queried_region = configured_region

----------------------------------------------------------------------------
(* Claims about the snapshot as a partition.                               *)

RECURSIVE MembersIn(_, _)
\* the number of records in the groups from the k-th on
MembersIn(groups, k) ==
    IF k > Len(groups) THEN 0
    ELSE Len(groups[k].members) + MembersIn(groups, k + 1)

\* how often the record r occurs in the sequence
Occurrences(seq, r) == Cardinality({i \in 1 .. Len(seq) : seq[i] = r})

RECURSIVE OccurrencesIn(_, _, _)
OccurrencesIn(groups, k, r) ==
    IF k > Len(groups) THEN 0
    ELSE Occurrences(groups[k].members, r) + OccurrencesIn(groups, k + 1, r)

\* C28: the snapshot is a partition of the query result by lifecycle state:
\* no group is empty, no two groups have the same key, the groups hold as
\* many records as the query returned, and, for get_state_map, every member
\* of a group has the group's key as its state, every record returned is in
\* the groups as often as in the response, and a group is the records of
\* its state in the order of the response.
C28_SnapshotIsAPartition ==
    (QueryDone /\ qimpl \in {"get_state_map", "list"} /\ qresult.error = "") =>
        LET groups == qresult.groups
            body == response.stdout.body
        IN  /\ \A k \in 1 .. Len(groups) : groups[k].members # <<>>
            /\ \A k, l \in 1 .. Len(groups) :
                   groups[k].state = groups[l].state => k = l
            /\ MembersIn(groups, 1) = Len(body)
            /\ qimpl = "get_state_map" =>
                   /\ \A k \in 1 .. Len(groups) :
                          /\ \A j \in 1 .. Len(groups[k].members) :
                                 groups[k].members[j].state = groups[k].state
                          /\ groups[k].members =
                                 SelectSeq(body, LAMBDA r : r.state = groups[k].state)
                   /\ \A i \in 1 .. Len(body) :
                          OccurrencesIn(groups, 1, body[i]) = Occurrences(body, body[i])

\* C28 witness: a snapshot of running, terminated, running: two groups, the
\* two running records in the first
C28_Witness ==
    /\ QueryDone
    /\ qimpl = "get_state_map"
    /\ qresult.error = ""
    /\ Len(response.stdout.body) = 3
    /\ response.stdout.body[1].state = "running"
    /\ response.stdout.body[2].state = "terminated"
    /\ response.stdout.body[3].state = "running"
    /\ response.stdout.body[1] # response.stdout.body[3]
    /\ Len(qresult.groups) = 2
    /\ qresult.groups[1].members = <<response.stdout.body[1], response.stdout.body[3]>>

====
